---- MODULE Spec2Model ----
(***************************************************************************)
(* Model of the mail store discovery core of vorner/mix:                   *)
(*   src/main.rs            run, main                                      *)
(*   src/mailbox.rs         Type::guess, Mailbox::detect, scan_cutoff,     *)
(*                          lua_load, configure_mbox, initial_scan         *)
(*   src/mailbox/task.rs    ArcCmp, Task, Queue                            *)
(* Paths are sequences of components, file contents are sequences of       *)
(* bytes, Option<T> is a sequence of length 0 or 1.                        *)
(***************************************************************************)
EXTENDS Integers, Sequences, FiniteSets, TLC

\* ------------------------------------------------------------------ bounds
\* Number of addresses the allocator can hand to Arc::new.
NumAddrs == 3
\* How many times pop/turn is tried again on a queue that is already empty.
MaxEmptyPops == 2

\* --------------------------------------------------------------- constants
GZIP_MAGIC == <<31, 139>>
MBOX_MAGIC == <<70, 114, 111, 109, 32>>
MDIR_SUBDIRS == {"cur", "new", "tmp"}
\* let mut beginning = [0u8; 5]
ProbeLen == 5

None == <<>>
Some(x) == <<x>>

\* ------------------------------------------------------------------- paths
Parent(p) == SubSeq(p, 1, Len(p) - 1)
FileName(p) == p[Len(p)]
Join(p, n) == Append(p, n)

\* ------------------------------------------------------------- file systems
\* A file system maps the physical path of every node to the node.
Dir == [type |-> "dir", readable |-> TRUE]
LockedDir == [type |-> "dir", readable |-> FALSE]
Link(t) == [type |-> "link", target |-> t]
\* bytes: the raw content; gunzip: what a gzip decoder yields from it;
\* gzok: FALSE when the decoder reports a corrupt stream.
File(b, g, ok) == [type |-> "file", readable |-> TRUE, bytes |-> b, gunzip |-> g, gzok |-> ok]
PlainMbox == File(MBOX_MAGIC \o <<65>>, <<>>, FALSE)
GzipMbox == File(GZIP_MAGIC \o <<8, 0, 0>>, MBOX_MAGIC \o <<66>>, TRUE)
GzipOther == File(GZIP_MAGIC \o <<8, 0, 0>>, <<72, 101, 108, 108, 111>>, TRUE)
GzipShort == File(GZIP_MAGIC \o <<8, 0, 0>>, <<70, 114>>, TRUE)
EmptyFile == File(<<>>, <<>>, FALSE)
TextFile == File(<<72, 101, 108, 108, 111>>, <<>>, FALSE)
LockedFile == [type |-> "file", readable |-> FALSE, bytes |-> MBOX_MAGIC, gunzip |-> <<>>, gzok |-> FALSE]

Maildir(p) ==
    (p :> Dir) @@ (Join(p, "cur") :> Dir) @@ (Join(p, "new") :> Dir) @@ (Join(p, "tmp") :> Dir)

\* One root holding a plain mbox, a gzip mbox, a maildir and an empty file.
FsMixed ==
    (<<"r">> :> Dir) @@ (<<"r", "mb">> :> PlainMbox) @@ (<<"r", "gz">> :> GzipMbox)
    @@ Maildir(<<"r", "md">>) @@ (<<"r", "e">> :> EmptyFile)

\* A maildir and a symbolic link to it, next to a link back to the root.
FsLinks ==
    (<<"r">> :> Dir) @@ Maildir(<<"r", "md">>) @@ (<<"r", "ln">> :> Link(<<"r", "md">>))
    @@ (<<"r", "up">> :> Link(<<"r">>))

\* Two directories holding an mbox of the same file name, one directory that
\* cannot be listed, one file that cannot be opened.
FsTwins ==
    (<<"r">> :> Dir) @@ (<<"r", "a">> :> Dir) @@ (<<"r", "a", "mb">> :> PlainMbox)
    @@ (<<"r", "b">> :> Dir) @@ (<<"r", "b", "mb">> :> PlainMbox)
    @@ (<<"r", "x">> :> LockedDir) @@ (<<"r", "x", "mb">> :> PlainMbox)
    @@ (<<"s">> :> Dir) @@ (<<"s", "k">> :> LockedFile) @@ (<<"s", "gz">> :> GzipMbox)

\* Gzip files that are not mailboxes, a text file, a dangling link.
FsOdd ==
    (<<"r">> :> Dir) @@ (<<"r", "go">> :> GzipOther) @@ (<<"r", "gs">> :> GzipShort)
    @@ (<<"r", "t">> :> TextFile) @@ (<<"r", "mb">> :> PlainMbox)
    @@ (<<"r", "dl">> :> Link(<<"r", "gone">>))

\* Nothing but a maildir, with one message (starting like an mbox) in cur.
FsMaildir ==
    (<<"r">> :> Dir) @@ Maildir(<<"r", "md">>) @@ (<<"r", "md", "cur", "m1">> :> PlainMbox)

\* --------------------------------------------------- file system operations
RECURSIVE Canon(_, _)
\* The physical path a walked path names once the links in it are followed.
Canon(f, p) ==
    IF Len(p) = 0 THEN p
    ELSE LET q == Join(Canon(f, Parent(p)), FileName(p))
         IN  IF q \in DOMAIN f /\ f[q].type = "link" THEN f[q].target ELSE q

\* The path of the directory entry itself, links in its parent followed only.
Lexical(f, p) == Join(Canon(f, Parent(p)), FileName(p))

Exists(f, p) == Canon(f, p) \in DOMAIN f
IsDir(f, p) == Exists(f, p) /\ f[Canon(f, p)].type = "dir"
IsFile(f, p) == Exists(f, p) /\ f[Canon(f, p)].type = "file"
IsSymlink(f, p) == Lexical(f, p) \in DOMAIN f /\ f[Lexical(f, p)].type = "link"

\* The entries read_dir lists under the directory p.
Children(f, p) ==
    { Join(p, FileName(q)) : q \in { q \in DOMAIN f : Len(q) > 0 /\ Parent(q) = Canon(f, p) } }

\* ------------------------------------------------------------ Type::guess
GuessOk(t) == [err |-> FALSE, tp |-> t]
GuessErr == [err |-> TRUE, tp |-> None]

\* read_exact(&mut beginning): fails unless the stream holds ProbeLen bytes.
ReadExact(stream) ==
    IF Len(stream) < ProbeLen THEN [err |-> TRUE, buf |-> <<>>]
    ELSE [err |-> FALSE, buf |-> SubSeq(stream, 1, ProbeLen)]

GuessFileRawOnly(node) ==
    IF ~node.readable THEN GuessErr
    ELSE LET raw == ReadExact(node.bytes)
         IN  IF raw.err THEN GuessErr
             ELSE IF raw.buf = MBOX_MAGIC THEN GuessOk(Some("Plain"))
             ELSE GuessOk(None)

GuessFile(node) ==
    IF ~node.readable THEN GuessErr
    ELSE LET raw == ReadExact(node.bytes)
         IN  IF raw.err THEN GuessErr
             ELSE IF raw.buf = MBOX_MAGIC THEN GuessOk(Some("Plain"))
             ELSE IF SubSeq(raw.buf, 1, 2) = GZIP_MAGIC
                  THEN LET gz == ReadExact(node.gunzip)
                       IN  IF ~node.gzok \/ gz.err THEN GuessErr
                           ELSE IF gz.buf = MBOX_MAGIC THEN GuessOk(Some("Gzip"))
                           ELSE GuessOk(None)
             ELSE GuessOk(None)

Guess(f, p) ==
    IF IsFile(f, p) THEN GuessFile(f[Canon(f, p)])
    ELSE IF IsDir(f, p)
         THEN IF \A sub \in MDIR_SUBDIRS : IsDir(f, Join(p, sub))
              THEN GuessOk(Some("Dir"))
              ELSE GuessOk(None)
    ELSE GuessOk(None)

\* --------------------------------------------------------- Mailbox::detect
CacheFor(tp) == IF tp = "Dir" THEN "Mdir" ELSE "Mbox"

\* Result<Option<Mailbox>, Error>
Detect(f, p) ==
    LET g == Guess(f, p)
    IN  IF g.err THEN [err |-> TRUE, mbox |-> None]
        ELSE IF g.tp = None THEN [err |-> FALSE, mbox |-> None]
        ELSE [err |-> FALSE,
              mbox |-> Some([path |-> p, name |-> FileName(p), tp |-> g.tp[1],
                             cache |-> CacheFor(g.tp[1]), prio |-> 0, shortcut |-> None])]

\* ------------------------------------------------------------- scan_cutoff
ScanCutoffDirectOnly(dd, f, p) == p \in dd

ScanCutoffSubdirsOnly(dd, f, p) ==
    IsDir(f, p) /\ FileName(p) \in MDIR_SUBDIRS /\ Parent(p) \in dd

ScanCutoff(dd, f, p) ==
    IF p \in dd THEN TRUE
    ELSE IsDir(f, p) /\ FileName(p) \in MDIR_SUBDIRS /\ Parent(p) \in dd

\* ----------------------------------------------------------------- WalkDir
\* WalkDir::new(root).follow_links(true).into_iter(): the iterator is
\* [started, stack]; each stack element is an opened directory with the
\* entries read_dir has still to hand out (in the order the OS chooses).
WalkNew == [started |-> FALSE, stack |-> <<>>]
OkItem(p) == [err |-> FALSE, path |-> p]
ErrItem(p) == [err |-> TRUE, path |-> p]

\* Opening a directory that cannot be listed gives a list of one error.
Opened(f, d) ==
    [dir |-> d,
     pending |-> IF f[Canon(f, d)].readable
                 THEN { OkItem(c) : c \in Children(f, d) }
                 ELSE { ErrItem(d) }]

RECURSIVE PopDone(_)
\* next() pops the lists that are exhausted before it reads on.
PopDone(stack) ==
    IF stack = <<>> \/ stack[Len(stack)].pending # {} THEN stack
    ELSE PopDone(SubSeq(stack, 1, Len(stack) - 1))

Yield(kind, p, stack) == [kind |-> kind, path |-> p, walk |-> [started |-> TRUE, stack |-> stack]]

\* handle_entry: follow a link (the target must exist and must not be a
\* directory already open above), open a directory, hand out the entry.
HandleEntry(f, x, stack) ==
    IF x.err THEN Yield("err", x.path, stack)
    ELSE IF ~Exists(f, x.path) THEN Yield("err", x.path, stack)
    ELSE IF IsSymlink(f, x.path) /\ IsDir(f, x.path)
            /\ \E i \in 1..Len(stack) : Canon(f, stack[i].dir) = Canon(f, x.path)
         THEN Yield("err", x.path, stack)
    ELSE IF IsDir(f, x.path) THEN Yield("ok", x.path, Append(stack, Opened(f, x.path)))
    ELSE Yield("ok", x.path, stack)

\* Every result walkdir.next() may give, with the iterator it leaves.
WalkNext(f, root, w) ==
    IF ~w.started THEN { HandleEntry(f, OkItem(root), <<>>) }
    ELSE LET s == PopDone(w.stack)
         IN  IF s = <<>> THEN { Yield("none", <<>>, s) }
             ELSE LET top == s[Len(s)]
                  IN  { HandleEntry(f, x, [s EXCEPT ![Len(s)].pending = top.pending \ {x}])
                        : x \in top.pending }

\* walkdir.skip_current_dir(): drops the directory opened last.
SkipCurrentDir(w) ==
    IF w.stack = <<>> THEN w
    ELSE [w EXCEPT !.stack = SubSeq(w.stack, 1, Len(w.stack) - 1)]

\* ------------------------------------------------------------------- state
VARIABLES
    fs,         \* the file system under the configured roots
    cfg,        \* what config::load reads: [valid, scripts, storage]
    pc,         \* where run/main stands
    error,      \* the Error run returns, None while there is none
    exit_status,\* the status the process ended with, None while it runs
    script_i,   \* index of the next script of cfg.scripts to load
    loaded,     \* the scripts lua.exec ran to the end, in order
    cbacks,     \* the Lua registry table CONFIG_CBACKS
    saved,      \* a Lua global in which a callback keeps a handle
    mem,        \* address -> Mailbox: Lua userdata and Arc allocations
    calls,      \* userdata -> the callbacks invoked with it, in order
    writes,     \* userdata -> the set_* calls made on it, in order
    raised,     \* userdata whose customization raised a Lua error
    root_i,     \* index of the root of cfg.storage.search being walked
    walk,       \* the WalkDir iterator of that root
    dedup,      \* HashSet<PathBuf> of initial_scan
    queue,      \* the Queue (BTreeSet<Task>)
    MAILBOXES,  \* the registry: name -> address of the Arc<Mailbox>
    yielded,    \* the walkdir results consumed so far
    classified, \* the paths Mailbox::detect was called on
    commits,    \* one record per store that reached Arc::new
    notified,   \* the notifications Notification::send was called for
    last,       \* what the last step did
    qlast,      \* the last Queue operation: its argument, result, queue before
    drained,    \* the results of the pops since the last push
    snapshot,   \* the queue as the last push left it
    twin        \* store address -> the address Arc::new gives that store in
                \* a second run of the scan over the same inputs

vars == <<fs, cfg, pc, error, exit_status, script_i, loaded, cbacks, saved, mem, calls,
          writes, raised, root_i, walk, dedup, queue, MAILBOXES, yielded, classified,
          commits, notified, last, qlast, drained, snapshot, twin>>

Addrs == 1..NumAddrs
\* Lua userdata live in the Lua heap, apart from the addresses Arc::new uses.
UData(k) == NumAddrs + k
IsUData(a) == a > NumAddrs

\* ------------------------------------------------------------ ArcCmp, Task
Ordering(a, b) == IF a < b THEN "Less" ELSE IF a > b THEN "Greater" ELSE "Equal"

\* A mistaken ArcCmp::cmp that compares what the Arcs hold.
ArcCmpByValue(a, b) == Ordering(mem[a].prio, mem[b].prio)

\* ArcCmp::cmp: the addresses of the two allocations, as usize.
ArcCmp(a, b) == Ordering(a, b)

Rescan(a) == [tag |-> "Rescan", ptr |-> a]
VariantRank(tag) == CASE tag = "Rescan" -> 0

\* #[derive(Ord)] on Task: the variant first, then the field.
TaskCmp(t, u) ==
    IF VariantRank(t.tag) # VariantRank(u.tag)
    THEN Ordering(VariantRank(t.tag), VariantRank(u.tag))
    ELSE ArcCmp(t.ptr, u.ptr)

\* ------------------------------------------------------------------- Queue
QueueNew == {}

\* BTreeSet::insert: a task that compares Equal to one in the set is dropped.
QueuePush(q, task) ==
    IF \E t \in q : TaskCmp(t, task) = "Equal" THEN q ELSE q \cup {task}

\* A mistaken pop that takes the task from the other end of the set.
QueueLast(q) ==
    IF q = {} THEN None
    ELSE Some(CHOOSE t \in q : \A u \in q : TaskCmp(t, u) \in {"Greater", "Equal"})

\* self.0.iter().next(): the least task of the set.
QueueFirst(q) ==
    IF q = {} THEN None
    ELSE Some(CHOOSE t \in q : \A u \in q : TaskCmp(t, u) \in {"Less", "Equal"})

\* Queue::pop: [ret: Option<Task>, queue]
QueuePop(q) ==
    LET first == QueueFirst(q)
    IN  IF first = None THEN [ret |-> None, queue |-> q]
        ELSE [ret |-> first, queue |-> { u \in q : TaskCmp(u, first[1]) # "Equal" }]

\* Task::perform: unimplemented!() panics.
Perform(task) == [panic |-> TRUE]

\* Queue::turn: [ret: Option<bool>, panic, queue]; ret is None when turn
\* never returns.
QueueTurn(q) ==
    LET r == QueuePop(q)
    IN  IF r.ret # None
        THEN IF Perform(r.ret[1]).panic
             THEN [ret |-> None, panic |-> TRUE, queue |-> r.queue]
             ELSE [ret |-> Some(TRUE), panic |-> FALSE, queue |-> r.queue]
        ELSE [ret |-> Some(FALSE), panic |-> FALSE, queue |-> r.queue]

\* ------------------------------------------------- maps (HashMap, the heap)
EmptyMap == [x \in {} |-> None]
MapPut(m, k, v) == [x \in DOMAIN m \cup {k} |-> IF x = k THEN v ELSE m[x]]
Values(m) == { m[k] : k \in DOMAIN m }

\* HashMap::insert: the new map and the value the key had before.
HashMapInsert(m, k, v) ==
    [map |-> MapPut(m, k, v), old |-> IF k \in DOMAIN m THEN Some(m[k]) ELSE None]

\* HashSet::insert: the new set and whether the value was new.
HashSetInsert(set, v) == [set |-> set \cup {v}, fresh |-> v \notin set]

\* ------------------------------------------------ impl UserData for Mailbox
MethodSetName(mb, name) == [mb EXCEPT !.name = name]
MethodSetPrio(mb, prio) == [mb EXCEPT !.prio = prio]
\* sc.chars().nth(0)
MethodSetShortcut(mb, sc) == [mb EXCEPT !.shortcut = IF Len(sc) = 0 THEN None ELSE Some(sc[1])]

Method(mb, field, val) ==
    CASE field = "name" -> MethodSetName(mb, val)
      [] field = "prio" -> MethodSetPrio(mb, val)
      [] field = "shortcut" -> MethodSetShortcut(mb, val)

\* ------------------------------------------------------------- Lua scripts
\* What the callbacks the scripts register do with the handle they get.
Op(op, arg) == [op |-> op, arg |-> arg]
CbBody(cb) ==
    CASE cb = "prio1" -> << Op("set_prio", 1), Op("set_shortcut", <<>>) >>
      [] cb = "prio5a" -> << Op("set_prio", 5), Op("set_shortcut", <<"a", "b">>) >>
      [] cb = "same" -> << Op("set_name", "inbox") >>
      [] cb = "picky" -> << Op("set_prio", 2), Op("error_if", "gz") >>
      [] cb = "keep" -> << Op("poke", 9), Op("save", 0) >>
      [] cb = "more" -> << Op("register", "prio1") >>

\* A script file: whether it can be opened, the callbacks it registers when
\* run, whether it then raises an error.
Script(name) ==
    CASE name = "tune" -> [present |-> TRUE, regs |-> <<"prio1", "prio5a">>, raises |-> FALSE]
      [] name = "keep" -> [present |-> TRUE, regs |-> <<"keep">>, raises |-> FALSE]
      [] name = "same" -> [present |-> TRUE, regs |-> <<"same">>, raises |-> FALSE]
      [] name = "picky" -> [present |-> TRUE, regs |-> <<"picky">>, raises |-> FALSE]
      [] name = "grow" -> [present |-> TRUE, regs |-> <<"more">>, raises |-> FALSE]
      [] name = "broken" -> [present |-> TRUE, regs |-> <<"prio1">>, raises |-> TRUE]
      [] name = "absent" -> [present |-> FALSE, regs |-> <<>>, raises |-> FALSE]

\* The Lua state the operators below thread through a customization.
LuaState == [mem |-> mem, saved |-> saved, cbacks |-> cbacks, calls |-> calls,
             writes |-> writes, raised |-> raised]

\* A set_* method called on the userdata at target while cur is customized.
LuaWrite(L, target, cur, field, val) ==
    [L EXCEPT !.mem[target] = Method(@, field, val),
              !.writes[target] = Append(@, [during |-> cur, field |-> field, val |-> val])]

\* register_config: cbacks.raw_set(len + 1, c)
RegisterConfig(table, c) == Append(table, c)

FieldOf(op) ==
    CASE op = "set_name" -> "name" [] op = "set_prio" -> "prio" [] op = "set_shortcut" -> "shortcut"

RunOp(L, h, o) ==
    CASE o.op \in {"set_name", "set_prio", "set_shortcut"} ->
            LuaWrite(L, h, h, FieldOf(o.op), o.arg)
      [] o.op = "error_if" ->
            IF L.mem[h].name = o.arg THEN [L EXCEPT !.raised = @ \cup {h}] ELSE L
      [] o.op = "save" -> [L EXCEPT !.saved = Some(h)]
      [] o.op = "poke" ->
            IF L.saved = None THEN L
            ELSE LuaWrite(LuaWrite(L, L.saved[1], h, "prio", o.arg), L.saved[1], h, "name", "old")
      [] o.op = "register" -> [L EXCEPT !.cbacks = RegisterConfig(@, o.arg)]

RECURSIVE RunOps(_, _, _, _)
RunOps(L, h, ops, i) ==
    IF i > Len(ops) \/ h \in L.raised THEN L
    ELSE RunOps(RunOp(L, h, ops[i]), h, ops, i + 1)

\* cback.call(handle.clone())
CallCback(L, h, cb) == RunOps([L EXCEPT !.calls[h] = Append(@, cb)], h, CbBody(cb), 1)

RECURSIVE RunCbacks(_, _, _)
\* for cback in cbacks.sequence_values(): the table is read entry by entry,
\* the first error ends the loop.
RunCbacks(L, h, i) ==
    IF i > Len(L.cbacks) \/ h \in L.raised THEN L
    ELSE RunCbacks(CallCback(L, h, L.cbacks[i]), h, i + 1)

\* lua.create_userdata(mbox): the Mailbox moves into a new userdata.
CreateUserdata(L, h, mbox) ==
    [L EXCEPT !.mem = MapPut(@, h, mbox), !.calls = MapPut(@, h, <<>>),
              !.writes = MapPut(@, h, <<>>)]

\* A mistaken configure_mbox that hands back the Mailbox it was given.
ConfigureMboxStale(L, h, mbox) ==
    LET L1 == RunCbacks(CreateUserdata(L, h, mbox), h, 1)
    IN  [lua |-> L1, err |-> h \in L1.raised, result |-> mbox]

\* configure_mbox: [lua, err, result]; result is the clone of what the
\* handle holds after the callbacks.
ConfigureMbox(L, h, mbox) ==
    LET L1 == RunCbacks(CreateUserdata(L, h, mbox), h, 1)
    IN  [lua |-> L1, err |-> h \in L1.raised, result |-> L1.mem[h]]

RECURSIVE RegisterAll(_, _, _)
\* The register_config calls a script makes while lua.exec runs it.
RegisterAll(table, regs, i) ==
    IF i > Len(regs) THEN table
    ELSE RegisterAll(RegisterConfig(table, regs[i]), regs, i + 1)

\* lua_load: File::open, read_to_end, lua.exec; [err, cbacks]
LuaLoad(table, name) ==
    LET sc == Script(name)
    IN  IF ~sc.present THEN [err |-> TRUE, cbacks |-> table]
        ELSE [err |-> sc.raises, cbacks |-> RegisterAll(table, sc.regs, 1)]

\* ------------------------------------------------------------------ inputs
Meta(sc, prio) == [shortcut |-> sc, prio |-> prio]
Storage(search, meta) == [search |-> search, meta |-> meta]

Scenarios ==
    { [fs |-> FsMixed,
       storage |-> Storage(<< <<"r">> >>, MapPut(EmptyMap, <<"r", "mb">>, Meta(Some("m"), 7))) ],
      [fs |-> FsMixed,
       storage |-> Storage(<< <<"r">>, <<"r", "md", "cur">> >>, EmptyMap) ],
      [fs |-> FsLinks, storage |-> Storage(<< <<"r">> >>, EmptyMap) ],
      [fs |-> FsLinks, storage |-> Storage(<< <<"r">>, <<"r">> >>, EmptyMap) ],
      [fs |-> FsTwins, storage |-> Storage(<< <<"s">>, <<"r">> >>, EmptyMap) ],
      [fs |-> FsOdd, storage |-> Storage(<< <<"q">>, <<"r">> >>, EmptyMap) ],
      [fs |-> FsMaildir,
       storage |-> Storage(<< <<"r">>, <<"r", "md", "cur">> >>, EmptyMap) ] }

ScriptLists ==
    { <<>>, <<"tune">>, <<"keep">>, <<"same">>, <<"picky">>, <<"grow", "tune">>,
      <<"tune", "broken">>, <<"absent", "tune">> }

Cfg(sc, scripts) == [valid |-> TRUE, scripts |-> scripts, storage |-> sc.storage]
\* A configuration file config::load cannot read or deserialize.
BadCfg == [valid |-> FALSE, scripts |-> <<>>, storage |-> Storage(<<>>, EmptyMap)]

Inputs ==
    { <<sc.fs, Cfg(sc, sl)>> : sc \in Scenarios, sl \in ScriptLists } \cup { <<FsMixed, BadCfg>> }

NoOp == [op |-> "none", arg |-> None, before |-> {}, ret |-> None, panic |-> FALSE]
Did(act, path) == [act |-> act, path |-> path, steps |-> <<>>]

Init ==
    /\ \E in \in Inputs : fs = in[1] /\ cfg = in[2]
    /\ pc = "start"
    /\ error = None
    /\ exit_status = None
    /\ script_i = 1
    /\ loaded = <<>>
    /\ cbacks = <<>>
    /\ saved = None
    /\ mem = EmptyMap
    /\ calls = EmptyMap
    /\ writes = EmptyMap
    /\ raised = {}
    /\ root_i = 1
    /\ walk = WalkNew
    /\ dedup = {}
    /\ queue = QueueNew
    /\ MAILBOXES = EmptyMap
    /\ yielded = {}
    /\ classified = {}
    /\ commits = {}
    /\ notified = {}
    /\ last = Did("init", <<>>)
    /\ qlast = NoOp
    /\ drained = <<>>
    /\ snapshot = {}
    /\ twin = EmptyMap

luaVars == <<cbacks, saved, mem, calls, writes, raised>>
scanVars == <<root_i, walk, dedup, queue, MAILBOXES, yielded, classified, commits, notified>>
queueGhost == <<qlast, drained, snapshot>>

\* -------------------------------------------------------------- run, main
\* run: config::load()
LoadConfig ==
    /\ pc = "start"
    /\ IF cfg.valid
       THEN pc' = "scripts" /\ error' = error
       ELSE pc' = "err" /\ error' = Some("Failed to load configuration")
    /\ last' = Did("load_config", <<>>)
    /\ UNCHANGED <<fs, cfg, twin, exit_status, script_i, loaded>>
    /\ UNCHANGED <<luaVars, scanVars, queueGhost>>

\* A mistaken loop that goes on to the next script after a failed one.
LoadFlowIgnore(err) == "scripts"

\* What initial_scan does with the result of lua_load(..)?
LoadFlow(err) == IF err THEN "err" ELSE "scripts"

\* initial_scan: one round of `for script in &cfg.scripts`
LoadScript ==
    /\ pc = "scripts"
    /\ script_i <= Len(cfg.scripts)
    /\ LET r == LuaLoad(cbacks, cfg.scripts[script_i])
       IN  /\ cbacks' = r.cbacks
           /\ pc' = LoadFlow(r.err)
           /\ error' = IF pc' = "err" THEN Some("Failed to load lua script") ELSE error
           /\ loaded' = IF r.err THEN loaded ELSE Append(loaded, cfg.scripts[script_i])
    /\ script_i' = script_i + 1
    /\ last' = Did("load_script", <<>>)
    /\ UNCHANGED <<fs, cfg, twin, exit_status, saved, mem, calls, writes, raised>>
    /\ UNCHANGED <<scanVars, queueGhost>>

\* initial_scan: the scripts are done; dedup and queue are created.
BeginScan ==
    /\ pc = "scripts"
    /\ script_i > Len(cfg.scripts)
    /\ pc' = "walk"
    /\ root_i' = 1
    /\ walk' = WalkNew
    /\ dedup' = {}
    /\ queue' = QueueNew
    /\ last' = Did("begin_scan", <<>>)
    /\ UNCHANGED <<fs, cfg, twin, error, exit_status, script_i, loaded, luaVars, MAILBOXES, yielded,
                   classified, commits, notified, queueGhost>>

\* ------------------------------------------------- initial_scan: the walk
Walking == pc = "walk" /\ root_i <= Len(cfg.storage.search)
Root == cfg.storage.search[root_i]
\* The results walkdir.next() may give now.
Nexts == WalkNext(fs, Root, walk)

\* A mistaken scan that gives up on the first mailbox it cannot detect.
FlowDetectFatal(outcome) ==
    CASE outcome \in {"cb_error", "detect_err"} -> "err"
      [] outcome \in {"dup_name", "dup_path"} -> "panicked"
      [] OTHER -> "walk"

\* A mistaken scan that logs a failed customization and goes on.
FlowSkipCbError(outcome) ==
    CASE outcome \in {"dup_name", "dup_path"} -> "panicked"
      [] OTHER -> "walk"

\* A mistaken scan that does not assert on the result of the insert.
FlowNoAssert(outcome) ==
    CASE outcome = "cb_error" -> "err"
      [] outcome = "dup_path" -> "panicked"
      [] OTHER -> "walk"

\* Where the loop body of initial_scan leaves the scan: `?` on
\* configure_mbox returns the error, a failed assert! panics, every other
\* arm falls through to the next walkdir.next().
Flow(outcome) ==
    CASE outcome = "cb_error" -> "err"
      [] outcome \in {"dup_name", "dup_path"} -> "panicked"
      [] OTHER -> "walk"

\* What a step of the walk leaves of run's state.
Leave(outcome) ==
    /\ pc' = Flow(outcome)
    /\ error' = IF pc' = "err" THEN Some("Failed to configure mbox") ELSE error
    /\ exit_status' = IF pc' = "panicked" THEN Some(101) ELSE exit_status

\* None => break: the root is done, the next iterator is created.
RootDone ==
    /\ Walking
    /\ \E r \in Nexts :
         /\ r.kind = "none"
         /\ root_i' = root_i + 1
         /\ walk' = WalkNew
         /\ last' = Did("root_done", Root)
    /\ UNCHANGED <<fs, cfg, twin, pc, error, exit_status, script_i, loaded, luaVars, dedup, queue,
                   MAILBOXES, yielded, classified, commits, notified, queueGhost>>

\* Some(Err(e)) => error!(..)
EntryError ==
    /\ Walking
    /\ \E r \in Nexts :
         /\ r.kind = "err"
         /\ walk' = r.walk
         /\ yielded' = yielded \cup {[root |-> root_i, path |-> r.path, ok |-> FALSE]}
         /\ last' = Did("walk_err", r.path)
    /\ Leave("walk_err")
    /\ UNCHANGED <<fs, cfg, twin, script_i, loaded, luaVars, root_i, dedup, queue, MAILBOXES,
                   classified, commits, notified, queueGhost>>

\* Some(Ok(ref entry)) if scan_cutoff(&dedup, entry) => skip_current_dir()
EntryCutoff ==
    /\ Walking
    /\ \E r \in Nexts :
         /\ r.kind = "ok"
         /\ ScanCutoff(dedup, fs, r.path)
         /\ walk' = SkipCurrentDir(r.walk)
         /\ yielded' = yielded \cup {[root |-> root_i, path |-> r.path, ok |-> TRUE]}
         /\ last' = Did("cutoff", r.path)
    /\ Leave("cutoff")
    /\ UNCHANGED <<fs, cfg, twin, script_i, loaded, luaVars, root_i, dedup, queue, MAILBOXES,
                   classified, commits, notified, queueGhost>>

\* Some(Ok(entry)) => match Mailbox::detect(&entry) { Err(e) => error!(..)
EntryDetectError ==
    /\ Walking
    /\ \E r \in Nexts :
         /\ r.kind = "ok"
         /\ ~ScanCutoff(dedup, fs, r.path)
         /\ Detect(fs, r.path).err
         /\ walk' = r.walk
         /\ yielded' = yielded \cup {[root |-> root_i, path |-> r.path, ok |-> TRUE]}
         /\ classified' = classified \cup {r.path}
         /\ last' = Did("detect_err", r.path)
    /\ Leave("detect_err")
    /\ UNCHANGED <<fs, cfg, twin, script_i, loaded, luaVars, root_i, dedup, queue, MAILBOXES,
                   commits, notified, queueGhost>>

\* Ok(None) => trace!(..)
EntryNoMailbox ==
    /\ Walking
    /\ \E r \in Nexts :
         /\ r.kind = "ok"
         /\ ~ScanCutoff(dedup, fs, r.path)
         /\ ~Detect(fs, r.path).err
         /\ Detect(fs, r.path).mbox = None
         /\ walk' = r.walk
         /\ yielded' = yielded \cup {[root |-> root_i, path |-> r.path, ok |-> TRUE]}
         /\ classified' = classified \cup {r.path}
         /\ last' = Did("no_mailbox", r.path)
    /\ Leave("no_mailbox")
    /\ UNCHANGED <<fs, cfg, twin, script_i, loaded, luaVars, root_i, dedup, queue, MAILBOXES,
                   commits, notified, queueGhost>>

\* A mistaken commit that shares the userdata with Lua instead of cloning
\* out of the handle.
StoreAddrShared(h, a) == h

\* Arc::new(mbox): the clone taken out of the handle h moves to a new
\* allocation, at the address a the allocator picks.
StoreAddr(h, a) == a

NextUData == UData(Cardinality({ x \in DOMAIN mem : IsUData(x) }) + 1)
FreeAddrs == Addrs \ DOMAIN mem

CommitStepsNotifyFirst == <<"configure", "insert", "notify", "push", "dedup">>

\* The statements of the arm Ok(Some(mbox)) of initial_scan, in source order.
CommitSteps == <<"configure", "insert", "push", "notify", "dedup">>

\* Notification::MailboxAppeared(mbox), with what held of the store when the
\* notification was sent.
Appeared(s, p) ==
    [store |-> s.addr,
     registered |-> \E name \in DOMAIN s.registry : s.registry[name] = s.addr,
     queued |-> Rescan(s.addr) \in s.queue,
     claimed |-> p \in s.dedup]

\* One statement of the arm for the entry at path p, on the data s the arm
\* works on; h is the userdata created and a the address Arc::new gets. A
\* statement that returns the error or panics stops the arm.
CommitStep(s, step, p, mbox, h, a) ==
    LET t == [s EXCEPT !.steps = Append(s.steps, step)]
    IN  CASE step = "configure" ->
                 LET c == ConfigureMbox(LuaState, h, mbox)
                 IN  [t EXCEPT !.lua = c.lua, !.mem = c.lua.mem, !.result = c.result,
                               !.outcome = IF c.err THEN "cb_error" ELSE s.outcome,
                               !.stop = c.err]
          [] step = "insert" ->
                 LET addr == StoreAddr(h, a)
                     ins == HashMapInsert(s.registry, s.result.name, addr)
                 IN  [t EXCEPT !.addr = addr, !.mem = MapPut(s.mem, addr, s.result),
                               !.registry = ins.map,
                               !.outcome = IF ins.old # None THEN "dup_name" ELSE s.outcome,
                               !.stop = ins.old # None /\ Flow("dup_name") = "panicked"]
          [] step = "push" -> [t EXCEPT !.queue = QueuePush(s.queue, Rescan(s.addr))]
          [] step = "notify" -> [t EXCEPT !.notified = s.notified \cup {Appeared(s, p)}]
          [] step = "dedup" ->
                 LET set == HashSetInsert(s.dedup, p)
                 IN  [t EXCEPT !.dedup = set.set,
                               !.outcome = IF ~set.fresh /\ s.outcome = "committed"
                                           THEN "dup_path" ELSE s.outcome,
                               !.stop = ~set.fresh /\ Flow("dup_path") = "panicked"]

RECURSIVE RunCommit(_, _, _, _, _, _)
RunCommit(s, i, p, mbox, h, a) ==
    IF s.stop \/ i > Len(CommitSteps) THEN s
    ELSE RunCommit(CommitStep(s, CommitSteps[i], p, mbox, h, a), i + 1, p, mbox, h, a)

\* The arm Ok(Some(mbox)) of initial_scan for the entry at path p, with h
\* the userdata created and a the address Arc::new gets.
Commit(p, mbox, h, a) ==
    RunCommit([outcome |-> "committed", stop |-> FALSE, lua |-> LuaState, mem |-> mem,
               addr |-> 0, registry |-> MAILBOXES, queue |-> queue, notified |-> notified,
               dedup |-> dedup, steps |-> <<>>, result |-> mbox],
              1, p, mbox, h, a)

\* Ok(Some(mbox)) => configure_mbox(&lua, mbox)? returns the error.
EntryConfigureFails ==
    /\ Walking
    /\ \E r \in Nexts :
         /\ r.kind = "ok"
         /\ ~ScanCutoff(dedup, fs, r.path)
         /\ ~Detect(fs, r.path).err
         /\ Detect(fs, r.path).mbox # None
         /\ LET c == Commit(r.path, Detect(fs, r.path).mbox[1], NextUData, 0)
            IN  /\ c.outcome = "cb_error"
                /\ mem' = c.mem
                /\ saved' = c.lua.saved
                /\ cbacks' = c.lua.cbacks
                /\ calls' = c.lua.calls
                /\ writes' = c.lua.writes
                /\ raised' = c.lua.raised
                /\ last' = [act |-> c.outcome, path |-> r.path, steps |-> c.steps]
         /\ walk' = r.walk
         /\ yielded' = yielded \cup {[root |-> root_i, path |-> r.path, ok |-> TRUE]}
         /\ classified' = classified \cup {r.path}
    /\ Leave("cb_error")
    /\ UNCHANGED <<fs, cfg, twin, script_i, loaded, root_i, dedup, queue, MAILBOXES, commits,
                   notified, queueGhost>>

\* Ok(Some(mbox)) => the store is configured, put into an Arc, inserted
\* into MAILBOXES, pushed, notified and added to dedup.
CommitEntry ==
    /\ Walking
    /\ \E r \in Nexts, a \in FreeAddrs :
         /\ r.kind = "ok"
         /\ ~ScanCutoff(dedup, fs, r.path)
         /\ ~Detect(fs, r.path).err
         /\ Detect(fs, r.path).mbox # None
         /\ LET c == Commit(r.path, Detect(fs, r.path).mbox[1], NextUData, a)
            IN  /\ c.outcome # "cb_error"
                /\ mem' = c.mem
                /\ saved' = c.lua.saved
                /\ cbacks' = c.lua.cbacks
                /\ calls' = c.lua.calls
                /\ writes' = c.lua.writes
                /\ raised' = c.lua.raised
                /\ MAILBOXES' = c.registry
                /\ queue' = c.queue
                /\ notified' = c.notified
                /\ dedup' = c.dedup
                /\ commits' = commits \cup
                     {[path |-> r.path, h |-> NextUData, addr |-> c.addr, val |-> c.result,
                       ncb |-> Len(c.lua.cbacks), root |-> root_i]}
                /\ last' = [act |-> c.outcome, path |-> r.path, steps |-> c.steps]
                /\ IF c.queue = queue /\ c.outcome # "committed"
                   THEN UNCHANGED queueGhost
                   ELSE /\ qlast' = [op |-> "push", arg |-> Some(Rescan(c.addr)),
                                     before |-> queue, ret |-> None, panic |-> FALSE]
                        /\ drained' = <<>>
                        /\ snapshot' = c.queue
                /\ Leave(c.outcome)
         /\ walk' = r.walk
         /\ yielded' = yielded \cup {[root |-> root_i, path |-> r.path, ok |-> TRUE]}
         /\ classified' = classified \cup {r.path}
    /\ UNCHANGED <<fs, cfg, script_i, loaded, root_i>>

EntryCommit == CommitEntry /\ UNCHANGED twin

\* Ok(queue): every root is walked.
ScanReturn ==
    /\ pc = "walk"
    /\ root_i > Len(cfg.storage.search)
    /\ pc' = "report"
    /\ last' = Did("scan_return", <<>>)
    /\ UNCHANGED <<fs, cfg, twin, error, exit_status, script_i, loaded, luaVars, scanVars, queueGhost>>

\* run: the two debug! lines and Ok(()); main returns.
Report ==
    /\ pc = "report"
    /\ pc' = "exit"
    /\ exit_status' = Some(0)
    /\ last' = Did("report", <<>>)
    /\ UNCHANGED <<fs, cfg, twin, error, script_i, loaded, luaVars, scanVars, queueGhost>>

\* main: if let Err(e) = run() { error!(..) .. }; main returns.
LogError ==
    /\ pc = "err"
    /\ pc' = "exit"
    /\ exit_status' = Some(0)
    /\ last' = Did("log_error", <<>>)
    /\ UNCHANGED <<fs, cfg, twin, error, script_i, loaded, luaVars, scanVars, queueGhost>>

Next ==
    \/ LoadConfig
    \/ LoadScript
    \/ BeginScan
    \/ RootDone
    \/ EntryError
    \/ EntryCutoff
    \/ EntryDetectError
    \/ EntryNoMailbox
    \/ EntryConfigureFails
    \/ EntryCommit
    \/ ScanReturn
    \/ Report
    \/ LogError

Spec == Init /\ [][Next]_vars

\* ------------------------------------------------------ the Queue by itself
\* Queue::new, then any pushes, pops and turns over stores that live in
\* Arcs of their own. Two Arcs may hold equal Mailbox values.
QBox(prio) ==
    [path |-> <<"r", "mb">>, name |-> "mb", tp |-> "Plain", cache |-> "Mbox",
     prio |-> prio, shortcut |-> None]
QBoxes == { QBox(0), QBox(5) }

QInit ==
    /\ fs = FsMixed
    /\ cfg = BadCfg
    /\ pc = "queue"
    /\ error = None
    /\ exit_status = None
    /\ script_i = 1
    /\ loaded = <<>>
    /\ cbacks = <<>>
    /\ saved = None
    /\ mem = EmptyMap
    /\ calls = EmptyMap
    /\ writes = EmptyMap
    /\ raised = {}
    /\ root_i = 1
    /\ walk = WalkNew
    /\ dedup = {}
    /\ queue = QueueNew
    /\ MAILBOXES = EmptyMap
    /\ yielded = {}
    /\ classified = {}
    /\ commits = {}
    /\ notified = {}
    /\ last = Did("init", <<>>)
    /\ qlast = NoOp
    /\ drained = <<>>
    /\ snapshot = {}
    /\ twin = EmptyMap

qFrame == <<fs, cfg, twin, error, script_i, loaded, cbacks, saved, calls, writes, raised, root_i,
            walk, dedup, MAILBOXES, yielded, classified, commits, notified, last>>

EmptyPops == Cardinality({ i \in 1..Len(drained) : drained[i] = None })

\* Arc::new(mbox)
QNewStore ==
    /\ pc = "queue"
    /\ \E a \in FreeAddrs, mb \in QBoxes : mem' = MapPut(mem, a, mb)
    /\ UNCHANGED <<qFrame, pc, exit_status, queue, queueGhost>>

\* queue.push(Task::rescan(Arc::clone(&mbox)))
QPush ==
    /\ pc = "queue"
    /\ \E a \in DOMAIN mem :
         /\ queue' = QueuePush(queue, Rescan(a))
         /\ qlast' = [op |-> "push", arg |-> Some(Rescan(a)), before |-> queue,
                      ret |-> None, panic |-> FALSE]
    /\ drained' = <<>>
    /\ snapshot' = queue'
    /\ UNCHANGED <<qFrame, pc, exit_status, mem>>

\* queue.pop()
QPop ==
    /\ pc = "queue"
    /\ EmptyPops < MaxEmptyPops
    /\ LET r == QueuePop(queue)
       IN  /\ queue' = r.queue
           /\ qlast' = [op |-> "pop", arg |-> None, before |-> queue, ret |-> r.ret,
                        panic |-> FALSE]
           /\ drained' = Append(drained, r.ret)
    /\ UNCHANGED <<qFrame, pc, exit_status, mem, snapshot>>

\* queue.turn()
QTurn ==
    /\ pc = "queue"
    /\ EmptyPops < MaxEmptyPops
    /\ LET r == QueueTurn(queue)
       IN  /\ queue' = r.queue
           /\ qlast' = [op |-> "turn", arg |-> None, before |-> queue, ret |-> r.ret,
                        panic |-> r.panic]
           /\ drained' = Append(drained, QueuePop(queue).ret)
           /\ pc' = IF r.panic THEN "panicked" ELSE pc
           /\ exit_status' = IF r.panic THEN Some(101) ELSE exit_status
    /\ UNCHANGED <<qFrame, mem, snapshot>>

QNext == QNewStore \/ QPush \/ QPop \/ QTurn

QueueSpec == QInit /\ [][QNext]_vars

\* ----------------------------------------------- Type::guess over one file
\* The scan of a single root that is a regular file: initial_scan hands the
\* root entry itself to Mailbox::detect, so the step taken shows what
\* Type::guess returned for it.
Prefixes(seq) == { SubSeq(seq, 1, n) : n \in 0..Len(seq) }

\* Leading bytes of files that are not gzip streams.
RawSamples ==
    Prefixes(MBOX_MAGIC \o <<65>>) \cup Prefixes(<<72, 101, 108, 108, 111, 33>>)
    \cup { <<102, 114, 111, 109, 32>>, <<32>> \o MBOX_MAGIC, <<31, 0, 8, 0, 0>> }

\* What a gzip file can decompress to.
StreamSamples ==
    Prefixes(MBOX_MAGIC \o <<65>>) \cup { <<72, 101, 108, 108, 111>>, <<102, 114, 111, 109, 32, 65>> }

ProbeFiles ==
    { File(raw, <<>>, FALSE) : raw \in RawSamples }
    \cup { File(GZIP_MAGIC \o <<8, 0, 0>>, g, ok) : g \in StreamSamples, ok \in BOOLEAN }
    \cup { File(SubSeq(GZIP_MAGIC \o <<8, 0, 0>>, 1, n), <<>>, FALSE) : n \in 2..4 }
    \cup { LockedFile }

ProbePath == <<"f">>

Fresh ==
    /\ error = None
    /\ exit_status = None
    /\ script_i = 1
    /\ loaded = <<>>
    /\ cbacks = <<>>
    /\ saved = None
    /\ mem = EmptyMap
    /\ calls = EmptyMap
    /\ writes = EmptyMap
    /\ raised = {}
    /\ root_i = 1
    /\ walk = WalkNew
    /\ dedup = {}
    /\ queue = QueueNew
    /\ MAILBOXES = EmptyMap
    /\ yielded = {}
    /\ classified = {}
    /\ commits = {}
    /\ notified = {}
    /\ last = Did("init", <<>>)
    /\ qlast = NoOp
    /\ drained = <<>>
    /\ snapshot = {}
    /\ twin = EmptyMap

ProbeInit ==
    /\ \E node \in ProbeFiles : fs = (ProbePath :> node)
    /\ cfg = [valid |-> TRUE, scripts |-> <<>>, storage |-> Storage(<<ProbePath>>, EmptyMap)]
    /\ pc = "start"
    /\ Fresh

ProbeNext ==
    \/ LoadConfig
    \/ BeginScan
    \/ RootDone
    \/ EntryDetectError
    \/ EntryNoMailbox
    \/ EntryCommit
    \/ ScanReturn
    \/ Report

ProbeSpec == ProbeInit /\ [][ProbeNext]_vars

\* ------------------------------------------------- two runs, one traversal
\* A second run of the scan over the same file system, configuration and
\* scripts, meeting the entries in the same order: it differs from the first
\* in nothing but the addresses its allocator hands to Arc::new, which twin
\* records store by store.
Arcs(m) == DOMAIN m \cap Addrs

EntryCommitTwice ==
    /\ CommitEntry
    /\ \E b \in Addrs \ Values(twin) :
         twin' = MapPut(twin, CHOOSE a \in Arcs(mem') \ Arcs(mem) : TRUE, b)

TwinInit ==
    /\ fs = FsMixed
    /\ \E sl \in {<<>>, <<"tune">>} :
         cfg = [valid |-> TRUE, scripts |-> sl, storage |-> Storage(<< <<"r">> >>, EmptyMap)]
    /\ pc = "start"
    /\ Fresh

TwinNext ==
    \/ LoadConfig
    \/ LoadScript
    \/ BeginScan
    \/ RootDone
    \/ EntryCutoff
    \/ EntryDetectError
    \/ EntryNoMailbox
    \/ EntryCommitTwice
    \/ ScanReturn
    \/ Report

TwinSpec == TwinInit /\ [][TwinNext]_vars

\* ================================================================== claims
SameStore(t, u) == t.ptr = u.ptr
Popped == { drained[i][1] : i \in { j \in 1..Len(drained) : drained[j] # None } }

\* C2: a push of a Rescan task whose Store instance already has a task in
\* the queue leaves the queue as it was; a push for any other Store
\* instance, whatever its field values, adds exactly that one task.
C2_PushIdempotentOnIdentity ==
    qlast.op = "push" =>
        LET task == qlast.arg[1]
        IN  IF \E u \in qlast.before : SameStore(u, task)
            THEN queue = qlast.before
            ELSE /\ queue = qlast.before \cup {task}
                 /\ Cardinality(queue) = Cardinality(qlast.before) + 1

\* C2 witness: after pops and pushes, a store already queued is pushed
\* again while the queue also holds another store of identical field values.
C2_Witness ==
    /\ qlast.op = "push"
    /\ qlast.arg[1] \in qlast.before
    /\ \E u \in qlast.before : ~SameStore(u, qlast.arg[1]) /\ mem[u.ptr] = mem[qlast.arg[1].ptr]
    /\ queue = qlast.before
    /\ Cardinality({ a \in DOMAIN mem : Rescan(a) \notin queue }) > 0

\* C3: the pops since the last push return the tasks that push left in the
\* queue, each once, in increasing order of the Task ordering (the address
\* of the store), each the minimum of the queue it was taken from; after a
\* None every later pop is None and the queue is empty.
C3_PopDrainsInOrder ==
    /\ \A i, j \in 1..Len(drained) :
         i < j =>
            /\ drained[i] = None => drained[j] = None
            /\ (drained[i] # None /\ drained[j] # None) => drained[i][1].ptr < drained[j][1].ptr
    /\ Popped \cup queue = snapshot
    /\ Popped \cap queue = {}
    /\ \A t \in Popped, u \in queue : t.ptr < u.ptr
    /\ (\E i \in 1..Len(drained) : drained[i] = None) => queue = {} /\ Popped = snapshot

\* C3 witness: two tasks were popped, then pop returned None twice.
C3_Witness ==
    /\ qlast.op = "pop"
    /\ Len(drained) = 4
    /\ drained[1] # None /\ drained[2] # None
    /\ drained[3] = None /\ drained[4] = None
    /\ Cardinality(snapshot) = 2

\* C4: turn on a non-empty queue removes the minimum task, performs it and
\* returns true; on an empty queue it returns false and changes nothing.
C4_TurnPerformsAndReturnsTrue ==
    qlast.op = "turn" =>
        IF qlast.before # {}
        THEN /\ qlast.ret = Some(TRUE)
             /\ ~qlast.panic
             /\ Cardinality(queue) = Cardinality(qlast.before) - 1
        ELSE qlast.ret = Some(FALSE) /\ queue = qlast.before


\* The file or directory a visited path reaches.
Underlying(p) == Canon(fs, p)
StoresOf(c) == { a \in Values(MAILBOXES) : Underlying(mem[a].path) = c }
TasksOf(c) == { t \in queue : Underlying(mem[t.ptr].path) = c }

\* C1: when the scan has returned its queue, a mail store that two visited
\* entries reach (through a followed link, or a root given twice) has
\* exactly one Store in the registry and exactly one Rescan task in the queue.
C1_OneStorePerUnderlyingFile ==
    pc = "report" =>
        \A y, z \in yielded :
            (/\ y # z
             /\ y.ok /\ z.ok
             /\ Underlying(y.path) = Underlying(z.path)
             /\ ~Detect(fs, y.path).err
             /\ Detect(fs, y.path).mbox # None)
            => /\ Cardinality(StoresOf(Underlying(y.path))) = 1
               /\ Cardinality(TasksOf(Underlying(y.path))) = 1

DupCommitted == \E c, d \in commits : c # d /\ c.val.name = d.val.name

\* C5: a commit under a name the registry already holds panics and no step
\* of the scan follows it; while no commit has panicked, the registry gives,
\* for the name of every committed store, exactly that store.
C5_DuplicateNameIsFatal ==
    /\ DupCommitted => pc = "panicked" /\ last.act = "dup_name" /\ exit_status = Some(101)
    /\ pc = "panicked" => last.act \in {"dup_name", "dup_path"}
    /\ pc # "panicked" =>
         \A c \in commits :
            /\ c.val.name \in DOMAIN MAILBOXES
            /\ MAILBOXES[c.val.name] = c.addr
            /\ mem[MAILBOXES[c.val.name]] = c.val

\* C5 witness: a store was committed under a new name, looked up by it in
\* the states before, and a second store of that name then hit the assert.
C5_Witness ==
    /\ pc = "panicked"
    /\ DupCommitted
    /\ Cardinality(commits) = 3
    /\ Cardinality(DOMAIN MAILBOXES) = 2

ConfigureError == Some("Failed to configure mbox")

\* C6: once a callback has raised an error for a candidate, initial_scan has
\* returned that error, the candidate is in neither the registry, the queue
\* nor the dedup set, and the failed customization was the last step of the
\* scan (nothing was classified or committed after it).
C6_CallbackFailureAbortsScan ==
    raised # {} =>
        /\ Cardinality(raised) = 1
        /\ pc \in {"err", "exit"}
        /\ error = ConfigureError
        /\ last.act \in {"cb_error", "log_error"}
        /\ \A h \in raised :
             /\ \A c \in commits : c.h # h /\ c.path # mem[h].path
             /\ mem[h].path \notin dedup
             /\ \A a \in Values(MAILBOXES) : mem[a].path # mem[h].path
             /\ \A t \in queue : mem[t.ptr].path # mem[h].path
             /\ \A c \in commits : c.h < h

\* C6 witness: the callback failed after a store was committed and while
\* entries of the walk were still to come.
C6_Witness ==
    /\ raised # {}
    /\ last.act = "cb_error"
    /\ commits # {}
    /\ \E i \in 1..Len(walk.stack) : walk.stack[i].pending # {}

\* C7: a step that meets a traversal error or a classification error leaves
\* the scan running with no error, changes neither registry, queue nor
\* dedup set, stays on the same root, and leaves the iterator exactly where
\* walkdir.next() left it, so that the entries and roots still to come are
\* visited as they would have been.
C7_EntryFailureDoesNotAbort ==
    [][ last'.act \in {"walk_err", "detect_err"} =>
          /\ pc = "walk" /\ pc' = "walk"
          /\ error' = None
          /\ exit_status' = None
          /\ UNCHANGED <<dedup, queue, MAILBOXES, commits, root_i>>
          /\ \E r \in Nexts : r.path = last'.path /\ walk' = r.walk ]_vars

\* C7 witness: a store is committed, and the queue returned later, after a
\* traversal error and a classification error.
C7_Witness ==
    /\ last.act = "committed"
    /\ \E y \in yielded : ~y.ok
    /\ \E p \in classified : Detect(fs, p).err
    /\ \E y \in yielded, c \in commits : ~y.ok /\ y.root < c.root

LoadError == Some("Failed to load lua script")
BadScript(name) == ~Script(name).present \/ Script(name).raises

\* C8: the scripts are run in the configured order, all of them before the
\* first root is walked; once a script has failed to load, initial_scan has
\* returned an error and no entry was visited, no store inserted, no task
\* enqueued.
C8_ScriptsLoadBeforeTraversal ==
    /\ Len(loaded) <= Len(cfg.scripts)
    /\ \A i \in 1..Len(loaded) : loaded[i] = cfg.scripts[i]
    /\ (pc \in {"walk", "report"} \/ yielded # {}) => loaded = cfg.scripts
    /\ \A i \in 1..Len(cfg.scripts) :
         (BadScript(cfg.scripts[i]) /\ script_i > i) =>
            /\ error = LoadError
            /\ pc \in {"err", "exit"}
            /\ Len(loaded) < i
    /\ error = LoadError =>
         /\ yielded = {} /\ classified = {}
         /\ DOMAIN MAILBOXES = {} /\ commits = {}
         /\ queue = {} /\ dedup = {}

\* C8 witness: the first script ran, the second failed to load, main logged.
C8_Witness ==
    /\ error = LoadError
    /\ Len(loaded) = 1
    /\ Len(cfg.scripts) = 2
    /\ pc = "exit"


\* The set_* calls made on the handle h while h itself was customized.
OwnWrites(h, field) ==
    LET Own(w) == w.during = h /\ w.field = field
    IN  SelectSeq(writes[h], Own)
\* Last write wins: the value the field holds after those calls.
LeftBy(h, field, default) ==
    LET ws == OwnWrites(h, field)
    IN  IF ws = <<>> THEN default ELSE ws[Len(ws)].val
FirstChar(str) == IF Len(str) = 0 THEN None ELSE Some(str[1])

\* C9: for every store that reached the commit, the callbacks invoked with
\* its handle are exactly the registered ones, each once, in registration
\* order, and the Store in the Arc has the name, priority and shortcut the
\* last set_name, set_prio and set_shortcut of those callbacks left (the
\* detected value where none was called).
C9_CallbacksCustomizeCommittedStore ==
    \A c \in commits :
        /\ c.ncb <= Len(cbacks)
        /\ calls[c.h] = SubSeq(cbacks, 1, c.ncb)
        /\ c.h \notin raised
        /\ c.val.name = LeftBy(c.h, "name", FileName(c.path))
        /\ c.val.prio = LeftBy(c.h, "prio", 0)
        /\ c.val.shortcut = IF OwnWrites(c.h, "shortcut") = <<>> THEN None
                             ELSE FirstChar(LeftBy(c.h, "shortcut", <<>>))
        /\ c.val.path = c.path
        /\ c.val.tp = Detect(fs, c.path).mbox[1].tp
        /\ pc # "panicked" => mem[MAILBOXES[c.val.name]] = c.val

\* C9 witness: two callbacks ran on a store, the second overwrote what the
\* first had set, and the store is in the registry with priority 5 and
\* shortcut 'a'.
C9_Witness ==
    \E c \in commits :
        /\ calls[c.h] = <<"prio1", "prio5a">>
        /\ Len(OwnWrites(c.h, "prio")) = 2
        /\ c.val.name \in DOMAIN MAILBOXES
        /\ mem[MAILBOXES[c.val.name]].prio = 5
        /\ mem[MAILBOXES[c.val.name]].shortcut = Some("a")
        /\ pc = "report"

\* C10: a store that reached the commit holds, in every later state, the
\* path, name, kind, priority and shortcut it was committed with, whatever
\* the callbacks write to handles they kept.
C10_CommittedStoreNeverChanges ==
    \A c \in commits :
        /\ c.addr \in DOMAIN mem
        /\ mem[c.addr].path = c.val.path
        /\ mem[c.addr].name = c.val.name
        /\ mem[c.addr].tp = c.val.tp
        /\ mem[c.addr].prio = c.val.prio
        /\ mem[c.addr].shortcut = c.val.shortcut

\* C10 witness: a callback wrote, while it customized a later candidate, to
\* the handle it had kept from a store already committed.
C10_Witness ==
    \E c \in commits :
        /\ \E i \in 1..Len(writes[c.h]) : writes[c.h][i].during # c.h
        /\ mem[c.h].prio # mem[c.addr].prio
        /\ mem[c.h].name # mem[c.addr].name


\* C11: when the process has ended, its exit status is 0 exactly when run
\* returned no error (configuration, scripts and customization all went
\* through); after any of those failures the status is not 0.
C11_FailureExitsNonZero ==
    exit_status # None =>
        /\ error # None => exit_status # Some(0)
        /\ exit_status = Some(0) => error = None /\ last.act = "report"

\* C12: when the scan has returned, every committed store whose path is a
\* key of cfg.storage.meta has the shortcut and priority of that entry.
C12_MetaOverridesStore ==
    pc = "report" =>
        \A c \in commits :
            c.path \in DOMAIN cfg.storage.meta =>
                /\ mem[c.addr].shortcut = cfg.storage.meta[c.path].shortcut
                /\ mem[c.addr].prio = cfg.storage.meta[c.path].prio


\* The roots are a directory and then the cur subdirectory of a maildir that
\* the walk of the first root committed.
CurRootAfterMaildir ==
    /\ Len(cfg.storage.search) = 2
    /\ FileName(cfg.storage.search[2]) = "cur"
    /\ \E c \in commits : c.root = 1 /\ c.path = Parent(cfg.storage.search[2])
                          /\ mem[c.addr].tp = "Dir"

\* C13: with such roots, once the scan has returned the second root's entry
\* was yielded and cut off: it was not classified, nothing below it was
\* yielded, and the second root committed no store; where the first root
\* holds nothing but the maildir, exactly one store is committed.
C13_CurRootIsCutOff ==
    (pc = "report" /\ CurRootAfterMaildir) =>
        LET cur == cfg.storage.search[2]
        IN  /\ [root |-> 2, path |-> cur, ok |-> TRUE] \in yielded
            /\ cur \notin classified
            /\ \A y \in yielded : y.root = 2 => y.path = cur
            /\ \A c \in commits : c.root = 1
            /\ fs = FsMaildir =>
                   /\ Cardinality(commits) = 1
                   /\ \A c \in commits : c.path = Parent(cur)
                   /\ Cardinality(DOMAIN MAILBOXES) = 1
                   /\ Cardinality(queue) = 1

C13_Witness ==
    /\ pc = "report"
    /\ CurRootAfterMaildir
    /\ fs = FsMaildir
    /\ [root |-> 2, path |-> <<"r", "md", "cur">>, ok |-> TRUE] \in yielded
    /\ dedup = {<<"r", "md">>}


\* One root r holding an mbox file, a gzip mbox file, a maildir and an empty
\* file.
MixedSingleRoot ==
    fs = FsMixed /\ cfg.valid /\ cfg.storage.search = << <<"r">> >>

KindAt(path) == { mem[c.addr].tp : c \in { d \in commits : d.path = path } }

\* C14: over such a root a scan that returns has committed exactly three
\* stores, of kinds Plain, Gzip and Dir, and its queue holds exactly three
\* distinct Rescan tasks, one per store; the empty file is met without the
\* scan aborting (without scripts the scan never ends in an error or panic).
C14_MixedRootGivesThreeStores ==
    MixedSingleRoot =>
        /\ (pc \in {"report", "exit"} /\ error = None) =>
               /\ Cardinality(commits) = 3
               /\ KindAt(<<"r", "mb">>) = {"Plain"}
               /\ KindAt(<<"r", "gz">>) = {"Gzip"}
               /\ KindAt(<<"r", "md">>) = {"Dir"}
               /\ Cardinality(DOMAIN MAILBOXES) = 3
               /\ queue = { Rescan(c.addr) : c \in commits }
               /\ Cardinality(queue) = 3
               /\ [root |-> 1, path |-> <<"r", "e">>, ok |-> TRUE] \in yielded
               /\ <<"r", "e">> \in classified
        /\ cfg.scripts = <<>> => pc \notin {"err", "panicked"} /\ error = None

C14_Witness ==
    /\ MixedSingleRoot
    /\ cfg.scripts = <<>>
    /\ pc = "report"
    /\ <<"r", "e">> \in classified
    /\ Cardinality(queue) = 3


\* The file Type::guess was just called on, and what it returned.
Probed == fs[ProbePath]
JustProbed == last.path = ProbePath /\ last.act \in {"detect_err", "no_mailbox", "committed"}
Returned ==
    CASE last.act = "detect_err" -> GuessErr
      [] last.act = "no_mailbox" -> GuessOk(None)
      [] last.act = "committed" ->
             GuessOk(Some((CHOOSE c \in commits : c.path = ProbePath).val.tp))

StartsWith(stream, magic) ==
    Len(stream) >= Len(magic) /\ SubSeq(stream, 1, Len(magic)) = magic

\* The file is a readable gzip file whose stream decompresses.
IsGzip(node) ==
    node.readable /\ Len(node.bytes) >= ProbeLen /\ StartsWith(node.bytes, GZIP_MAGIC) /\ node.gzok

\* C15: Type::guess returns Plain for a file whose first 5 bytes are
\* "From ", Gzip for a gzip file whose decompressed stream starts with
\* "From ", and None for a gzip file whose decompressed stream starts with
\* anything else, a stream shorter than 5 bytes included.
C15_GuessByMagic ==
    JustProbed =>
        /\ (Probed.readable /\ StartsWith(Probed.bytes, MBOX_MAGIC)) =>
               Returned = GuessOk(Some("Plain"))
        /\ (IsGzip(Probed) /\ StartsWith(Probed.gunzip, MBOX_MAGIC)) =>
               Returned = GuessOk(Some("Gzip"))
        /\ (IsGzip(Probed) /\ ~StartsWith(Probed.gunzip, MBOX_MAGIC)) =>
               Returned = GuessOk(None)

\* C16: for a readable regular file shorter than the 5-byte probe,
\* Type::guess returns None and not an error.
C16_ShortFileIsNoMatch ==
    (JustProbed /\ Probed.readable /\ Len(Probed.bytes) < ProbeLen) =>
        Returned = GuessOk(None)


RECURSIVE Drain(_)
\* The tasks of the queue q in the order pop hands them out.
Drain(q) ==
    IF q = QueueNew THEN <<>>
    ELSE LET r == QueuePop(q) IN <<r.ret[1]>> \o Drain(r.queue)

\* The queue the second run returns, and the store of this run that a task
\* of the second run stands for.
SecondQueue == { Rescan(twin[t.ptr]) : t \in queue }
FirstOf(task) == CHOOSE a \in DOMAIN twin : twin[a] = task.ptr

PopPaths == [i \in 1..Cardinality(queue) |-> mem[Drain(queue)[i].ptr].path]
SecondPopPaths ==
    [i \in 1..Cardinality(queue) |-> mem[FirstOf(Drain(SecondQueue)[i])].path]

\* C18: when two runs of the scan over the same file system, configuration
\* and scripts have returned, popping their queues lists the stores in the
\* same order.
C18_PopOrderIsDeterministic ==
    pc = "report" => PopPaths = SecondPopPaths


\* The stores whose commit ran up to the notification (the statement before
\* the Dedup Set insertion).
Committed == { c \in commits : \E n \in notified : n.store = c.addr }

\* C19: in every state the Dedup Set is the set of the paths of the stores
\* committed so far; no path reaches the commit steps twice or while it is
\* in the Dedup Set, and the assertion on the Dedup Set insertion never
\* fails.
C19_DedupIsCommittedPaths ==
    /\ dedup = { c.path : c \in Committed }
    /\ \A c, d \in commits : c.path = d.path => c = d
    /\ \A n \in notified : ~n.claimed
    /\ last.act # "dup_path"

C19_Witness ==
    /\ last.act = "cutoff"
    /\ last.path \in dedup
    /\ root_i = 2
    /\ Cardinality(dedup) = 2


\* C20: when the scan has found the name of a candidate store already in
\* the Registry, the Registry is as it was: each name maps to the store
\* committed under it, and every task in the queue references the store the
\* Registry holds under that store's name.
C20_DuplicateNameLeavesRegistry ==
    last.act = "dup_name" =>
        /\ \A c \in Committed :
               c.val.name \in DOMAIN MAILBOXES /\ MAILBOXES[c.val.name] = c.addr
        /\ \A t \in queue : MAILBOXES[mem[t.ptr].name] = t.ptr

====
